---- MODULE Spec2Model ----
(***************************************************************************)
(* A model of the WeChat chat assistant: the Conversation store            *)
(* (conversation.py), the context builder (context_builder.py), the        *)
(* structured reminder store MemoManager with its delivery loop            *)
(* (memo_manager.py) and the intake loop of main.py.                       *)
(*                                                                         *)
(* Texts are sequences of tokens (a token stands for a character or a      *)
(* word), so that substring tests and joins are computed, not assumed.     *)
(* Each subsystem has its own specification (SpecConv, SpecCtx, SpecMemo,  *)
(* SpecMain); the variables of the other subsystems stay at their idle     *)
(* values.                                                                 *)
(***************************************************************************)
EXTENDS Integers, Sequences, FiniteSets, TLC

VARIABLES
    conv,              \* the Conversation object of conversation.py
    appended,          \* history variable: every message given to add_message, in order
    ctx_in,            \* build_context: the arguments and the summarizer's outcome
    ctx_pc,            \* build_context: "idle" (not in use), "ready", "done"
    ctx_out,           \* build_context: the returned context (empty before the call)
    summarizer_calls,  \* build_context: the texts given to summarize_history, in order
    now,               \* the clock read by datetime.datetime.now(), in seconds
    pending_users,     \* MemoManager.pending_users: username -> time of the handshake
    reminders,         \* MemoManager.reminders: username -> list of Reminder
    swept,             \* the users whose handshake the last call's cleanup_pending removed
    delivered,         \* history variable: ids of the reminders the delivery loop printed
    next_id,           \* history variable: the identity of the next Reminder object
    pending_reminders, \* main.py: sender -> pending confirmation {reminder_text, suggested_time}
    rm_reminders,      \* ReminderManager.reminders: list of {user, reminder_text, time}
    rm_alive,          \* whether the ReminderManager thread is still running
    llm_request,       \* main.py: the last request to the language model, and for whom
    outbox,            \* main.py: the messages the last step sent with wx.SendMsg
    handled,           \* main.py: the number of incoming messages handled
    pm,                \* process_message running statement by statement: position and locals
    rc,                \* reminder_checker running statement by statement: position and locals
    lock,              \* MemoManager.lock: the thread that holds it, or "free"
    fn_in,             \* the arguments of a call of a pure function
    fn_out,            \* what that call returned
    conversation,      \* test.py: the conversation list of main()
    context,           \* test.py: the context of the last call of the language model
    conversation_log,  \* test.py: the list last written by save_conversation_log
    test_outbox,       \* test.py: the messages the last step sent with wx.SendMsg
    test_alive,        \* test.py: whether main() is still in its loop
    test_handled,      \* test.py: the number of incoming messages that were not skipped
    test_failed        \* test.py: the number of messages whose handling raised

ctxVars == <<ctx_in, ctx_pc, ctx_out, summarizer_calls>>
convVars == <<conv, appended>>
memoVars == <<now, pending_users, reminders, swept, delivered, next_id>>

raceVars == <<pm, rc, lock>>

fnVars == <<fn_in, fn_out>>

testVars == <<conversation, context, conversation_log, test_outbox, test_alive,
             test_handled, test_failed>>

mainVars == <<pending_reminders, rm_reminders, rm_alive, llm_request, outbox, handled>>

vars == <<conv, appended, ctx_in, ctx_pc, ctx_out, summarizer_calls,
          now, pending_users, reminders, swept, delivered, next_id,
          pending_reminders, rm_reminders, rm_alive, llm_request, outbox, handled,
          pm, rc, lock, fn_in, fn_out,
          conversation, context, conversation_log, test_outbox, test_alive,
          test_handled, test_failed>>

----------------------------------------------------------------------------
(* Python sequence helpers                                                 *)

Min(a, b) == IF a < b THEN a ELSE b

Max(a, b) == IF a > b THEN a ELSE b

\* s[-n:] for n >= 0.  Python reads -0 as 0, so s[-0:] is the whole list.
PySuffix(s, n) ==
    IF n = 0 THEN s
    ELSE SubSeq(s, Max(Len(s) - n, 0) + 1, Len(s))

\* s[:-n] for n >= 0.  s[:-0] is s[:0], the empty list.
PyDropLast(s, n) ==
    IF n = 0 THEN <<>>
    ELSE SubSeq(s, 1, Max(Len(s) - n, 0))

IsPrefix(s, t) == Len(s) <= Len(t) /\ SubSeq(t, 1, Len(s)) = s

IsSuffix(s, t) == Len(s) <= Len(t) /\ SubSeq(t, Len(t) - Len(s) + 1, Len(t)) = s

Msg(role, content) == [role |-> role, content |-> content]

IsSystem(m) == m.role = "system"

NotSystem(m) == m.role # "system"

----------------------------------------------------------------------------
(* conversation.py: class Conversation                                     *)

MaxRounds == 2       \* max_rounds is drawn from 0..MaxRounds
MaxAppends == 6      \* add_message calls in one run

SysContents == {<<"p1">>, <<"p2">>}
TurnContents == {<<"hi">>}
Roles == {"system", "user", "assistant"}

\* Conversation.__init__
NewConversation(system_prompt, max_rounds) ==
    [system_messages |-> <<Msg("system", system_prompt)>>,
     user_assistant_history |-> <<>>,
     max_history |-> max_rounds * 2]

\* A mutation of Truncate: the history is never cut.
TruncateNever(h, max_history) == h

\* add_message, lines 20-21: cut to the last max_history entries when longer.
Truncate(h, max_history) ==
    IF Len(h) > max_history THEN PySuffix(h, max_history) ELSE h

\* Conversation.add_message
AddMessage(c, role, content) ==
    IF role = "system"
    THEN [c EXCEPT !.system_messages = Append(@, Msg(role, content))]
    ELSE [c EXCEPT !.user_assistant_history =
                        Truncate(Append(@, Msg(role, content)), c.max_history)]

\* Conversation.get_history
GetHistory(c) == c.system_messages \o c.user_assistant_history

\* The idle values of the subsystems a specification does not run.
EmptyMap == [x \in {} |-> 0]

MemoIdle ==
    /\ now = 0
    /\ pending_users = EmptyMap
    /\ reminders = EmptyMap
    /\ swept = {}
    /\ delivered = {}
    /\ next_id = 1

MainIdle ==
    /\ pending_reminders = EmptyMap
    /\ rm_reminders = <<>>
    /\ rm_alive = TRUE
    /\ llm_request = [sender |-> "none", messages |-> <<>>]
    /\ outbox = <<>>
    /\ handled = 0

PmIdle == [pc |-> "idle", username |-> "none", m |-> [kind |-> "none"], found |-> 0,
           raised |-> FALSE, lost_update |-> FALSE, deleted |-> {}]

RcIdle == [pc |-> "sleep", now |-> 0, users |-> <<>>, username |-> "none",
           queue |-> <<>>, alive |-> TRUE]

RaceIdle ==
    /\ pm = PmIdle
    /\ rc = RcIdle
    /\ lock = "free"

FnIdle ==
    /\ fn_in = [fn |-> "none"]
    /\ fn_out = [returned |-> FALSE]

TestIdle ==
    /\ conversation = <<>>
    /\ context = <<>>
    /\ conversation_log = <<>>
    /\ test_outbox = <<>>
    /\ test_alive = TRUE
    /\ test_handled = 0
    /\ test_failed = 0

CtxIdle == [conversation |-> <<>>, system_prompt |-> <<>>, round_threshold |-> 0,
            recent_rounds |-> 0, outcome |-> [raises |-> FALSE, text |-> <<>>]]

InitConv ==
    /\ \E p \in SysContents, r \in 0..MaxRounds : conv = NewConversation(p, r)
    /\ appended = <<>>
    /\ ctx_in = CtxIdle
    /\ ctx_pc = "idle"
    /\ ctx_out = <<>>
    /\ summarizer_calls = <<>>
    /\ MemoIdle
    /\ MainIdle
    /\ RaceIdle
    /\ TestIdle
    /\ FnIdle

ContentsOf(role) == IF role = "system" THEN SysContents ELSE TurnContents

add_message ==
    /\ Len(appended) < MaxAppends
    /\ \E role \in Roles : \E content \in ContentsOf(role) :
          /\ conv' = AddMessage(conv, role, content)
          /\ appended' = Append(appended, Msg(role, content))
    /\ UNCHANGED <<ctxVars, memoVars, mainVars, raceVars, fnVars, testVars>>

NextConv == add_message

SpecConv == InitConv /\ [][NextConv]_vars

----------------------------------------------------------------------------
(* C1: for a Conversation built with max_rounds >= 1, after any sequence   *)
(* of add_message calls the number of stored non-system messages is at     *)
(* most max_rounds*2 (= max_history), and every add_message call leaves    *)
(* the system messages stored before it in place, in their order (the      *)
(* old list is a prefix of the new one).                                   *)
C1_WindowAndSystemKept ==
    /\ [](conv.max_history >= 2 =>
            Len(conv.user_assistant_history) <= conv.max_history)
    /\ [][IsPrefix(conv.system_messages, conv'.system_messages)]_vars

\* The window has overflowed and been cut, with system messages added meanwhile.
C1_Witness ==
    /\ conv.max_history >= 2
    /\ Len(SelectSeq(appended, NotSystem)) > conv.max_history
    /\ Len(conv.user_assistant_history) = conv.max_history
    /\ Len(conv.system_messages) >= 3

----------------------------------------------------------------------------
(* context_builder.py: summarize_history and build_context                 *)

MaxConvLen == 4      \* messages in the conversation given to build_context
MaxThreshold == 2    \* round_threshold is drawn from 0..MaxThreshold
MaxWindow == 2       \* recent_rounds is drawn from 0..MaxWindow

SummaryPrefix == <<"SUMMARY:">>                  \* the literal prefix of line 42
LengthConstraint == <<"REPLY_UNDER_250_CHARS">>  \* the literal of line 54

\* What the model call inside summarize_history does: raise, or answer a text.
SummarizerOutcomes ==
    {[raises |-> TRUE, text |-> <<>>]}
      \cup {[raises |-> FALSE, text |-> t] : t \in {<<"sum">>, <<" ">>, <<>>}}

\* str.strip()
RECURSIVE LStrip(_)
LStrip(t) == IF t # <<>> /\ Head(t) = " " THEN LStrip(Tail(t)) ELSE t

RECURSIVE RStrip(_)
RStrip(t) ==
    IF t # <<>> /\ t[Len(t)] = " " THEN RStrip(SubSeq(t, 1, Len(t) - 1)) ELSE t

Strip(t) == RStrip(LStrip(t))

\* line 39: "\n".join(role + "：" + content for each message)
RECURSIVE RenderLines(_)
RenderLines(ms) ==
    IF ms = <<>> THEN <<>>
    ELSE LET line == <<Head(ms).role, ":">> \o Head(ms).content
         IN IF Len(ms) = 1 THEN line
            ELSE line \o <<"\n">> \o RenderLines(Tail(ms))

\* summarize_history: the stripped answer, or "" when the call raises.
SummarizeHistory(outcome) ==
    IF outcome.raises THEN <<>> ELSE Strip(outcome.text)

\* A mutation of NeedsSummary: the threshold is inclusive.
NeedsSummaryInclusive(n, round_threshold) == n >= round_threshold * 2

\* line 37: len(non_system) > round_threshold * 2
NeedsSummary(n, round_threshold) == n > round_threshold * 2

\* line 38: non_system[:-recent_rounds * 2]
OlderMessages(non_system, recent_rounds) == PyDropLast(non_system, recent_rounds * 2)

\* A mutation of RecentMessages: every non-system message counts as recent.
RecentAll(non_system, recent_rounds) == non_system

\* line 49
RecentMessages(non_system, recent_rounds) ==
    IF Len(non_system) >= recent_rounds * 2
    THEN PySuffix(non_system, recent_rounds * 2)
    ELSE non_system

\* A mutation of AssembleContext: the summary is put before the system prompt.
AssembleSummaryFirst(system_prompt, summary, recent) ==
    (IF summary # <<>> THEN <<Msg("system", SummaryPrefix \o summary)>> ELSE <<>>)
      \o <<Msg("system", system_prompt)>>
      \o recent

\* A mutation of AssembleContext: the summary message is added even when the
\* summary is empty.
AssembleAlwaysSummary(system_prompt, summary, recent) ==
    <<Msg("system", system_prompt)>>
      \o <<Msg("system", SummaryPrefix \o summary)>>
      \o recent
      \o <<Msg("system", LengthConstraint)>>

\* lines 50-54: the context list
AssembleContext(system_prompt, summary, recent) ==
    <<Msg("system", system_prompt)>>
      \o (IF summary # <<>> THEN <<Msg("system", SummaryPrefix \o summary)>> ELSE <<>>)
      \o recent
      \o <<Msg("system", LengthConstraint)>>

\* build_context: the returned context and the texts sent to the summarizer
BuildContext(in) ==
    LET non_system == SelectSeq(in.conversation, NotSystem)
        triggered == NeedsSummary(Len(non_system), in.round_threshold)
        text == RenderLines(OlderMessages(non_system, in.recent_rounds))
        summary == IF triggered THEN SummarizeHistory(in.outcome) ELSE <<>>
    IN [context |-> AssembleContext(in.system_prompt, summary,
                                    RecentMessages(non_system, in.recent_rounds)),
        calls |-> IF triggered THEN <<text>> ELSE <<>>]

CtxMessages ==
    {Msg("system", <<"old">>), Msg("user", <<"a">>), Msg("user", <<"b">>),
     Msg("assistant", <<"r">>)}

CtxConversations == UNION {[1..k -> CtxMessages] : k \in 0..MaxConvLen}

InitCtx ==
    /\ conv = NewConversation(<<"p1">>, 0)
    /\ appended = <<>>
    /\ \E c \in CtxConversations, r \in 0..MaxThreshold, k \in 0..MaxWindow,
          o \in SummarizerOutcomes :
          ctx_in = [conversation |-> c, system_prompt |-> <<"p1">>,
                    round_threshold |-> r, recent_rounds |-> k, outcome |-> o]
    /\ ctx_pc = "ready"
    /\ ctx_out = <<>>
    /\ summarizer_calls = <<>>
    /\ MemoIdle
    /\ MainIdle
    /\ RaceIdle
    /\ TestIdle
    /\ FnIdle

build_context ==
    /\ ctx_pc = "ready"
    /\ ctx_out' = BuildContext(ctx_in).context
    /\ summarizer_calls' = BuildContext(ctx_in).calls
    /\ ctx_pc' = "done"
    /\ UNCHANGED <<conv, appended, ctx_in, memoVars, mainVars, raceVars, fnVars, testVars>>

NextCtx == build_context

SpecCtx == InitCtx /\ [][NextCtx]_vars

\* The input's non-system messages, and the window sizes, as the claims name them.
InNonSystem == SelectSeq(ctx_in.conversation, NotSystem)
InThreshold == ctx_in.round_threshold * 2
InWindow == ctx_in.recent_rounds * 2
\* The output between its first and its last element.
OutMiddle == SubSeq(ctx_out, 2, Len(ctx_out) - 1)
\* The last n elements of s (all of s when it is shorter), n >= 0.
LastN(s, n) == SubSeq(s, Len(s) - Min(n, Len(s)) + 1, Len(s))
\* The elements of s before its last n.
AllButLastN(s, n) == SubSeq(s, 1, Len(s) - Min(n, Len(s)))

(* C2: for every conversation, threshold, window and summarizer outcome,   *)
(* the context build_context returns starts with the system message        *)
(* carrying the given prompt and ends with the fixed length-constraint     *)
(* system message (two different elements).                                *)
C2_FirstPromptLastConstraint ==
    ctx_pc = "done" =>
        /\ Len(ctx_out) >= 2
        /\ ctx_out[1] = Msg("system", ctx_in.system_prompt)
        /\ ctx_out[Len(ctx_out)] = Msg("system", LengthConstraint)

\* A call in which a summary was produced, so that it could have come first.
C2_Witness ==
    /\ ctx_pc = "done"
    /\ Len(summarizer_calls) = 1
    /\ SummarizeHistory(ctx_in.outcome) # <<>>
    /\ Len(ctx_out) >= 4

(* C3: when the conversation holds at most R*2 non-system messages,        *)
(* build_context does not call the summarizer, and its output is the       *)
(* system prompt, then only non-system messages that are the most recent   *)
(* ones of the input (a suffix of them holding at least the last K*2),     *)
(* then the constraint message: no summary message is in it.               *)
C3_NoSummaryBelowThreshold ==
    (ctx_pc = "done" /\ Len(InNonSystem) <= InThreshold) =>
        /\ summarizer_calls = <<>>
        /\ ctx_out = <<Msg("system", ctx_in.system_prompt)>> \o OutMiddle
                        \o <<Msg("system", LengthConstraint)>>
        /\ \A i \in 1..Len(OutMiddle) : NotSystem(OutMiddle[i])
        /\ IsSuffix(OutMiddle, InNonSystem)
        /\ IsSuffix(LastN(InNonSystem, InWindow), OutMiddle)

\* Exactly at the threshold, with a summarizer that would have answered.
C3_Witness ==
    /\ ctx_pc = "done"
    /\ Len(InNonSystem) = InThreshold
    /\ InThreshold >= 2
    /\ SummarizeHistory(ctx_in.outcome) # <<>>
    /\ Len(OutMiddle) = 2
    /\ Len(InNonSystem) > 2

(* C4: when the conversation holds more than R*2 non-system messages and   *)
(* summarize_history returns non-empty text, the output holds exactly one  *)
(* summary message, right after the system prompt and before every recent  *)
(* message, and the text given to the summarizer is rendered from exactly  *)
(* the non-system messages other than the last K*2, in their order.        *)
C4_SummaryOfAllButWindow ==
    (/\ ctx_pc = "done"
     /\ Len(InNonSystem) > InThreshold
     /\ SummarizeHistory(ctx_in.outcome) # <<>>) =>
        /\ Len(ctx_out) >= 3
        /\ ctx_out[2] = Msg("system", SummaryPrefix \o SummarizeHistory(ctx_in.outcome))
        /\ \A i \in 3..(Len(ctx_out) - 1) : NotSystem(ctx_out[i])
        /\ summarizer_calls = <<RenderLines(AllButLastN(InNonSystem, InWindow))>>

\* The same statement for a window of at least one round: what the code does keep.
C4_HoldsForPositiveWindow ==
    ctx_in.recent_rounds >= 1 => C4_SummaryOfAllButWindow

----------------------------------------------------------------------------
(* memo_manager.py: class MemoManager                                      *)

PendingTimeout == 120   \* self.pending_timeout
MaxTime == 121          \* the clock stops advancing here
MaxReminders == 2       \* Reminder objects created in one run

Users == {"u1", "u2"}
ClockSteps == {120, 121}  \* how far the clock moves between two observations
DueMinutes == {120, 121}

\* A time string that matches the digit pattern: the minute it names, and whether
\* it is a date strptime accepts.
TimeStrings == {[minute |-> t, valid |-> TRUE] : t \in DueMinutes}
BadDate == [minute |-> 0, valid |-> FALSE]
NoTimeString == [minute |-> 0, valid |-> TRUE]

\* datetime.strptime of a valid time string
Strptime(time_str) == time_str.minute

MemoContents == {<<"a">>, <<" ", "a", "b">>}
Keywords == {<<"a">>, <<"b">>, <<"b", "a">>}

Command(kind, wellformed, keyword, content, time_str) ==
    [kind |-> kind, wellformed |-> wellformed, keyword |-> keyword,
     content |-> content, time_str |-> time_str]

\* The messages process_message tells apart, by what its string tests and its
\* regular expressions find in them.
Messages ==
    {Command(k, TRUE, <<>>, <<>>, NoTimeString) : k \in {"handshake", "view", "other"}}
      \cup {Command("delete", TRUE, k, <<>>, NoTimeString) : k \in Keywords \cup {<<>>, <<" ">>}}
      \cup {Command(k, FALSE, <<>>, <<>>, NoTimeString) : k \in {"modify", "add"}}
      \cup {Command("modify", TRUE, <<"a">>, <<"a">>, BadDate),
            Command("add", TRUE, <<>>, <<"a">>, BadDate)}
      \cup {Command("modify", TRUE, k, <<"a">>, t) : k \in Keywords, t \in TimeStrings}
      \cup {Command("add", TRUE, <<>>, c, t) : c \in MemoContents, t \in TimeStrings}

Reminder(id, content, remind_time, time_str) ==
    [id |-> id, content |-> content, remind_time |-> remind_time, time_str |-> time_str]

\* A response, by the fixed text it is built from (the reminder texts some
\* responses quote are left out).
Resp(kind) == kind

\* keyword in rem.content: a substring test
Contains(keyword, content) ==
    \E i \in 0..(Len(content) - Len(keyword)) :
        SubSeq(content, i + 1, i + Len(keyword)) = keyword

\* dict without some keys, dict with one key set
Without(f, keys) == [x \in DOMAIN f \ keys |-> f[x]]
With(f, key, value) == [x \in DOMAIN f \cup {key} |-> IF x = key THEN value ELSE f[x]]

RemoveAt(list, i) == SubSeq(list, 1, i - 1) \o SubSeq(list, i + 1, Len(list))

\* A mutation of Expired: a handshake never expires.
ExpiredNever(ts, t) == FALSE

\* A mutation of Expired: a handshake expires when it is exactly as old as the
\* timeout.
ExpiredAtTimeout(ts, t) == t - ts >= PendingTimeout

\* cleanup_pending, line 29
Expired(ts, t) == t - ts > PendingTimeout

\* cleanup_pending
CleanupPending(pending, t) ==
    Without(pending, {user \in DOMAIN pending : Expired(pending[user], t)})

\* A mutation of FindFirst: the last matching reminder is taken.
RECURSIVE FindLast(_, _, _)
FindLast(list, keyword, i) ==
    IF i > Len(list) THEN 0
    ELSE LET later == FindLast(list, keyword, i + 1)
         IN IF later # 0 THEN later
            ELSE IF Contains(keyword, list[i].content) THEN i ELSE 0

\* lines 84-87 and 123-126: the position of the first reminder from position i on
\* whose content contains the keyword, 0 when the loop ends without a break.
RECURSIVE FindFirst(_, _, _)
FindFirst(list, keyword, i) ==
    IF i > Len(list) THEN 0
    ELSE IF Contains(keyword, list[i].content) THEN i
    ELSE FindFirst(list, keyword, i + 1)

\* A mutation of TimePassed: the present moment counts as passed.
TimePassedOrNow(remind_time, t) == remind_time <= t

\* lines 117 and 170: remind_time < datetime.datetime.now()
TimePassed(remind_time, t) == remind_time < t

\* A mutation of ConsumeHandshake: the handshake stays.
KeepHandshake(pending, username) == pending

\* line 149: del self.pending_users[username]
ConsumeHandshake(pending, username) == Without(pending, {username})

InitMemo ==
    /\ conv = NewConversation(<<"p1">>, 0)
    /\ appended = <<>>
    /\ ctx_in = CtxIdle
    /\ ctx_pc = "idle"
    /\ ctx_out = <<>>
    /\ summarizer_calls = <<>>
    /\ MemoIdle
    /\ MainIdle
    /\ RaceIdle
    /\ TestIdle
    /\ FnIdle

\* What process_message(username, m) does at clock value now, given the pending map
\* cleanup_pending has left: the new pending map, reminders and responses.
Handshake(pending, username) ==
    [pending |-> With(pending, username, now),
     reminders |-> reminders,
     responses |-> <<Resp("format_guidance")>>]

ViewReminders(pending, username) ==
    [pending |-> pending,
     reminders |-> reminders,
     responses |->
        IF username \in DOMAIN reminders /\ reminders[username] # <<>>
        THEN <<Resp("list")>>
        ELSE <<Resp("no_reminders")>>]

DeleteReminder(pending, username, m) ==
    LET keyword == Strip(m.keyword)
        found == FindFirst(reminders[username], keyword, 1)
    IN IF keyword = <<>>
       THEN [pending |-> pending, reminders |-> reminders,
             responses |-> <<Resp("need_keyword")>>]
       ELSE IF username \notin DOMAIN reminders
       THEN [pending |-> pending, reminders |-> reminders,
             responses |-> <<Resp("no_reminders")>>]
       ELSE IF found = 0
       THEN [pending |-> pending, reminders |-> reminders,
             responses |-> <<Resp("not_found")>>]
       ELSE [pending |-> pending,
             reminders |-> [reminders EXCEPT ![username] = RemoveAt(@, found)],
             responses |-> <<Resp("deleted")>>]

ModifyReminder(pending, username, m) ==
    LET original_keyword == Strip(m.keyword)
        new_content == Strip(m.content)
        found == FindFirst(reminders[username], original_keyword, 1)
        old == reminders[username][found]
        new == Reminder(old.id, new_content, Strptime(m.time_str), m.time_str)
    IN IF ~m.wellformed
       THEN [pending |-> pending, reminders |-> reminders,
             responses |-> <<Resp("modify_format_error")>>]
       ELSE IF ~m.time_str.valid
       THEN [pending |-> pending, reminders |-> reminders,
             responses |-> <<Resp("time_format_error")>>]
       ELSE IF TimePassed(Strptime(m.time_str), now)
       THEN [pending |-> pending, reminders |-> reminders,
             responses |-> <<Resp("new_time_passed")>>]
       ELSE IF username \notin DOMAIN reminders
       THEN [pending |-> pending, reminders |-> reminders,
             responses |-> <<Resp("no_reminders")>>]
       ELSE IF found = 0
       THEN [pending |-> pending, reminders |-> reminders,
             responses |-> <<Resp("not_found")>>]
       ELSE [pending |-> pending,
             reminders |-> [reminders EXCEPT ![username][found] = new],
             responses |-> <<Resp("updated")>>]

\* A mutation of AddReminder: the handshake is consumed only by an add that is
\* accepted.
AddReminderConsumeOnSuccess(pending, username, m) ==
    LET reminder == Reminder(next_id, Strip(m.content), Strptime(m.time_str), m.time_str)
        list == IF username \in DOMAIN reminders THEN reminders[username] ELSE <<>>
    IN IF username \notin DOMAIN pending
       THEN [pending |-> pending, reminders |-> reminders,
             responses |-> <<Resp("not_initialized")>>]
       ELSE IF ~m.wellformed
       THEN [pending |-> pending, reminders |-> reminders,
             responses |-> <<Resp("add_format_error")>>]
       ELSE IF ~m.time_str.valid
       THEN [pending |-> pending, reminders |-> reminders,
             responses |-> <<Resp("time_format_error")>>]
       ELSE IF TimePassed(Strptime(m.time_str), now)
       THEN [pending |-> pending, reminders |-> reminders,
             responses |-> <<Resp("time_passed")>>]
       ELSE [pending |-> ConsumeHandshake(pending, username),
             reminders |-> With(reminders, username, Append(list, reminder)),
             responses |-> <<Resp("recorded")>>]

AddReminder(pending, username, m) ==
    LET consumed == ConsumeHandshake(pending, username)
        reminder == Reminder(next_id, Strip(m.content), Strptime(m.time_str), m.time_str)
        list == IF username \in DOMAIN reminders THEN reminders[username] ELSE <<>>
    IN IF username \notin DOMAIN pending
       THEN [pending |-> pending, reminders |-> reminders,
             responses |-> <<Resp("not_initialized")>>]
       ELSE IF ~m.wellformed
       THEN [pending |-> consumed, reminders |-> reminders,
             responses |-> <<Resp("add_format_error")>>]
       ELSE IF ~m.time_str.valid
       THEN [pending |-> consumed, reminders |-> reminders,
             responses |-> <<Resp("time_format_error")>>]
       ELSE IF TimePassed(Strptime(m.time_str), now)
       THEN [pending |-> consumed, reminders |-> reminders,
             responses |-> <<Resp("time_passed")>>]
       ELSE [pending |-> consumed,
             reminders |-> With(reminders, username, Append(list, reminder)),
             responses |-> <<Resp("recorded")>>]

Dispatch(pending, username, m) ==
    CASE m.kind = "handshake" -> Handshake(pending, username)
      [] m.kind = "view" -> ViewReminders(pending, username)
      [] m.kind = "delete" -> DeleteReminder(pending, username, m)
      [] m.kind = "modify" -> ModifyReminder(pending, username, m)
      [] m.kind = "add" -> AddReminder(pending, username, m)
      [] OTHER -> [pending |-> pending, reminders |-> reminders, responses |-> <<>>]

\* What process_message(username, m) returns and leaves behind when called in the
\* current state: cleanup_pending, then the first command that matches.
ProcessResult(username, m) ==
    Dispatch(CleanupPending(pending_users, now), username, m)

\* A call of process_message(username, m).  The responses are returned to the
\* caller; they are no part of the manager's state.
ProcessMessage(username, m) ==
    LET out == ProcessResult(username, m)
    IN /\ m.kind = "add" => next_id <= MaxReminders
       /\ pending_users' = out.pending
       /\ reminders' = out.reminders
       /\ swept' = DOMAIN pending_users \ DOMAIN CleanupPending(pending_users, now)
       /\ next_id' = IF out.responses = <<Resp("recorded")>>
                     THEN next_id + 1 ELSE next_id
       /\ UNCHANGED <<now, delivered, convVars, ctxVars, mainVars, raceVars, fnVars, testVars>>

process_message == \E username \in Users, m \in Messages : ProcessMessage(username, m)

\* A mutation of StillWaiting: no reminder is kept, due or not.
DeliverEverything(rem, t) == FALSE

\* A mutation of StillWaiting: a reminder is kept until its time is strictly past.
StillWaitingAtDue(rem, t) == ~(t > rem.remind_time)

\* reminder_checker, line 192, negated: the reminder is not due yet.
StillWaiting(rem, t) == ~(t >= rem.remind_time)

RECURSIVE Waiting(_, _)
Waiting(list, t) ==
    IF list = <<>> THEN <<>>
    ELSE IF StillWaiting(Head(list), t) THEN <<Head(list)>> \o Waiting(Tail(list), t)
    ELSE Waiting(Tail(list), t)

\* One pass of the loop of reminder_checker: every due reminder is printed and
\* removed from its owner's list.
reminder_checker ==
    /\ reminders' = [username \in DOMAIN reminders |-> Waiting(reminders[username], now)]
    /\ delivered' = delivered \cup UNION
          {{reminders[username][i].id :
               i \in {j \in 1..Len(reminders[username]) :
                         ~StillWaiting(reminders[username][j], now)}} :
             username \in DOMAIN reminders}
    /\ UNCHANGED <<now, pending_users, swept, next_id, convVars, ctxVars, mainVars, raceVars,
                   fnVars, testVars>>

\* The clock moves on.
Tick ==
    /\ \E d \in ClockSteps : now + d <= MaxTime /\ now' = now + d
    /\ UNCHANGED <<pending_users, reminders, swept, delivered, next_id,
                   convVars, ctxVars, mainVars, raceVars, fnVars, testVars>>

NextMemo == process_message \/ reminder_checker \/ Tick

SpecMemo == InitMemo /\ [][NextMemo]_vars

\* The delivery loop is scheduled again and again (it sleeps 10 s between passes).
FairSpecMemo == SpecMemo /\ WF_vars(reminder_checker)

----------------------------------------------------------------------------
(* Claims about MemoManager.  A claim about what a call does is stated of   *)
(* ProcessResult, the result of the call, in every reachable state.         *)

\* The handshake of user u is pending and not older than the timeout.
LiveHandshake(u) ==
    u \in DOMAIN pending_users /\ now - pending_users[u] <= PendingTimeout

ListOf(rs, u) == IF u \in DOMAIN rs THEN rs[u] ELSE <<>>

Adds == {m \in Messages : m.kind = "add"}
GoodAdds == {m \in Adds : m.wellformed /\ m.time_str.valid}
GoodModifies == {m \in Messages : m.kind = "modify" /\ m.wellformed /\ m.time_str.valid}
Deletes == {m \in Messages : m.kind = "delete" /\ Strip(m.keyword) # <<>>}
HandshakeCommand == Command("handshake", TRUE, <<>>, <<>>, NoTimeString)

\* The call stores the reminder the add names, at the end of the caller's list.
StoresReminder(res, u, m) ==
    /\ res.responses = <<Resp("recorded")>>
    /\ ListOf(res.reminders, u) =
          Append(ListOf(reminders, u),
                 Reminder(next_id, Strip(m.content), m.time_str.minute, m.time_str))
    /\ \A v \in DOMAIN reminders \ {u} : res.reminders[v] = reminders[v]

(* C6: a well-formed add by a user with a valid handshake whose due time   *)
(* is at or before the current time is rejected and stores no reminder,    *)
(* and is accepted when the time is strictly later; a well-formed modify   *)
(* whose new time is at or before the current time is rejected and changes *)
(* no reminder, and is not rejected for its time when strictly later.      *)
C6_RejectsAtOrBeforeNow ==
    \A u \in Users :
        /\ \A m \in GoodAdds :
              LiveHandshake(u) =>
                 IF m.time_str.minute <= now
                 THEN /\ ProcessResult(u, m).reminders = reminders
                      /\ ProcessResult(u, m).responses = <<Resp("time_passed")>>
                 ELSE StoresReminder(ProcessResult(u, m), u, m)
        /\ \A m \in GoodModifies :
                 IF m.time_str.minute <= now
                 THEN /\ ProcessResult(u, m).reminders = reminders
                      /\ ProcessResult(u, m).responses = <<Resp("new_time_passed")>>
                 ELSE ProcessResult(u, m).responses # <<Resp("new_time_passed")>>

\* What the code does do: only a time strictly before the current time is rejected.
C6_RejectsStrictlyPast ==
    \A u \in Users :
        /\ \A m \in GoodAdds :
              LiveHandshake(u) =>
                 IF m.time_str.minute < now
                 THEN /\ ProcessResult(u, m).reminders = reminders
                      /\ ProcessResult(u, m).responses = <<Resp("time_passed")>>
                 ELSE StoresReminder(ProcessResult(u, m), u, m)
        /\ \A m \in GoodModifies :
                 IF m.time_str.minute < now
                 THEN /\ ProcessResult(u, m).reminders = reminders
                      /\ ProcessResult(u, m).responses = <<Resp("new_time_passed")>>
                 ELSE ProcessResult(u, m).responses # <<Resp("new_time_passed")>>

(* C7: a structured add by user u is accepted only if u has a pending      *)
(* handshake, whatever the other users have pending: without one it is     *)
(* answered with the not-initialized guidance and stores nothing.  The     *)
(* handshake is one-shot: an add by u that finds it removes it, and        *)
(* nothing but u's own handshake command gives u a handshake again.        *)
C7_Invariant ==
    \A u \in Users : \A m \in Adds :
        /\ ~LiveHandshake(u) =>
              /\ ProcessResult(u, m).responses = <<Resp("not_initialized")>>
              /\ ProcessResult(u, m).reminders = reminders
        /\ ProcessResult(u, m).reminders # reminders => LiveHandshake(u)
        /\ LiveHandshake(u) => u \notin DOMAIN ProcessResult(u, m).pending

C7_OnlyOwnHandshake ==
    \A u \in Users :
        (/\ u \in DOMAIN pending_users'
         /\ (u \notin DOMAIN pending_users \/ pending_users'[u] # pending_users[u]))
          => ProcessMessage(u, HandshakeCommand)

C7_HandshakeOneShot == []C7_Invariant /\ [][C7_OnlyOwnHandshake]_vars

\* u has used its handshake for a stored reminder; another user's handshake is
\* pending, and u's next add is answered with the not-initialized guidance.
C7_Witness ==
    \E u \in Users, v \in Users :
        /\ u # v
        /\ ListOf(reminders, u) # <<>>
        /\ u \notin DOMAIN pending_users
        /\ LiveHandshake(v)
        /\ \A m \in Adds :
              ProcessResult(u, m).responses = <<Resp("not_initialized")>>

(* C8: every call of process_message removes every user's handshake that   *)
(* is older than 120 seconds (and no younger one of another user), so an   *)
(* add arriving more than 120 seconds after the sender's handshake is      *)
(* answered with the not-initialized guidance and stores nothing, while    *)
(* one arriving within 120 seconds finds the handshake (and is stored      *)
(* when it is well formed and its time is in the future).                  *)
C8_ExpirySweep ==
    \A u \in Users : \A m \in Messages :
        LET res == ProcessResult(u, m)
        IN /\ \A v \in DOMAIN pending_users :
                 IF now - pending_users[v] > 120
                 THEN \/ v \notin DOMAIN res.pending
                      \/ v = u /\ m.kind = "handshake" /\ res.pending[v] = now
                 ELSE v # u => v \in DOMAIN res.pending /\ res.pending[v] = pending_users[v]
           /\ (m.kind = "add" /\ u \in DOMAIN pending_users) =>
                 IF now - pending_users[u] > 120
                 THEN /\ res.responses = <<Resp("not_initialized")>>
                      /\ res.reminders = reminders
                 ELSE /\ res.responses # <<Resp("not_initialized")>>
                      /\ (m \in GoodAdds /\ m.time_str.minute > now) =>
                            StoresReminder(res, u, m)

\* The last call swept the expired handshake of a user, who has none now.
C8_Witness ==
    \E u \in swept : u \notin DOMAIN pending_users /\ now > PendingTimeout

(* C9: delete (with a keyword) and modify (well formed, new time in the    *)
(* future) act on the first reminder of the caller's list whose content    *)
(* contains the keyword as a substring and on no other: delete removes     *)
(* exactly that one, modify replaces its content, due time and display     *)
(* text at the same position.  When no reminder of the caller contains the *)
(* keyword, every list is left as it is and a not-found response is        *)
(* returned: "no matching reminder" when the caller has a list, "you have  *)
(* no reminders" when the caller has none.                                 *)
C9_FirstMatchOnly ==
    \A u \in Users : \A m \in Deletes \cup {g \in GoodModifies : g.time_str.minute > now} :
        LET res == ProcessResult(u, m)
            list == ListOf(reminders, u)
            matches == {i \in 1..Len(list) : Contains(Strip(m.keyword), list[i].content)}
            first == CHOOSE i \in matches : \A j \in matches : i <= j
        IN IF matches = {}
           THEN /\ res.reminders = reminders
                /\ res.responses =
                      <<IF u \in DOMAIN reminders THEN Resp("not_found")
                        ELSE Resp("no_reminders")>>
           ELSE /\ DOMAIN res.reminders = DOMAIN reminders
                /\ \A v \in DOMAIN reminders \ {u} : res.reminders[v] = reminders[v]
                /\ IF m.kind = "delete"
                   THEN /\ res.responses = <<Resp("deleted")>>
                        /\ Len(res.reminders[u]) = Len(list) - 1
                        /\ \A j \in 1..(Len(list) - 1) :
                              res.reminders[u][j] = IF j < first THEN list[j] ELSE list[j + 1]
                   ELSE /\ res.responses = <<Resp("updated")>>
                        /\ Len(res.reminders[u]) = Len(list)
                        /\ \A j \in 1..Len(list) :
                              res.reminders[u][j] =
                                 IF j # first THEN list[j]
                                 ELSE Reminder(list[j].id, Strip(m.content),
                                               m.time_str.minute, m.time_str)

\* A user holds two reminders; one keyword is in both and one only in the second,
\* and the delete of the latter leaves the first reminder alone.
C9_Witness ==
    \E u \in DOMAIN reminders :
        /\ Len(reminders[u]) = 2
        /\ reminders[u][1].content = <<"a">>
        /\ reminders[u][2].content = <<"a", "b">>
        /\ ProcessResult(u, Command("delete", TRUE, <<"b">>, <<>>, NoTimeString)).reminders[u]
              = <<reminders[u][1]>>
        /\ ProcessResult(u, Command("delete", TRUE, <<"a">>, <<>>, NoTimeString)).reminders[u]
              = <<reminders[u][2]>>

(* C10: under a delivery loop that keeps being scheduled, every stored     *)
(* reminder whose due time the clock has reached is eventually delivered   *)
(* and then no longer stored, unless its owner deletes it or moves its     *)
(* time into the future first; a reminder leaves the store only by being   *)
(* delivered or by its owner's delete.                                     *)
Stored(i) ==
    \E u \in DOMAIN reminders : \E j \in 1..Len(reminders[u]) : reminders[u][j].id = i

Overdue(i) ==
    \E u \in DOMAIN reminders : \E j \in 1..Len(reminders[u]) :
        reminders[u][j].id = i /\ reminders[u][j].remind_time <= now

ReminderIds == 1..(MaxReminders + 1)

C10_LeavesOnlyDeliveredOrDeleted ==
    \A i \in ReminderIds :
        (Stored(i) /\ ~Stored(i)') =>
            \/ i \in delivered' /\ Overdue(i)
            \/ \E u \in Users, m \in Deletes : ProcessMessage(u, m)

----------------------------------------------------------------------------
(* main.py: the intake loop, helpers.py and reminder_manager.py.  Times    *)
(* are seconds; a text is a record of its tokens and its character count.  *)

MaxIncoming == 2

MaxHours == 2

MAX_OUTPUT_LENGTH == 300

MainMaxRounds == 15

Hour == 60 * 60

Day == 24 * Hour

NoTime == 0 - 1

Chats == {"A", "B"}

Text(body, len) == [body |-> body, len |-> len]

From(chat, text) == [chat |-> chat, text |-> text]

SystemPrompt == From("operator", Text(<<"p1">>, 2))

\* what wx.GetAllNewMessage can hand over: whether the text starts with the bot's
\* mention, the query after the mention, and what dateparser.parse and the HH:MM
\* pattern find in it
Incoming(mention, body, parsed, hhmm) ==
    [mention |-> mention, query |-> body, parsed |-> parsed, hhmm |-> hhmm]

MainMessages ==
    {Incoming(FALSE, <<"hi">>, NoTime, <<>>),
     Incoming(TRUE, <<"hi">>, NoTime, <<>>),
     Incoming(TRUE, <<"YES">>, NoTime, <<>>),
     Incoming(TRUE, <<"no">>, NoTime, <<>>),
     Incoming(TRUE, <<"remind">>, NoTime, <<>>),
     Incoming(TRUE, <<"tomorrow_am", "remind", " ", "meet">>, NoTime, <<>>),
     Incoming(TRUE, <<"25:00">>, NoTime, <<25, 0>>),
     Incoming(TRUE, <<"1:00">>, NoTime, <<1, 0>>)}
    \cup {Incoming(TRUE, <<"remind", "meet">>, t, <<>>) : t \in {Hour}}

\* what client.chat.completions.create can do: raise, or answer with a text
LLMOutcomes ==
    {[raises |-> TRUE, text |-> Text(<<>>, 0)],
     [raises |-> FALSE, text |-> Text(<<" ", "r">>, 2)],
     [raises |-> FALSE, text |-> Text(<<"r">>, MAX_OUTPUT_LENGTH + 1)]}

Lower(body) ==
    [i \in DOMAIN body |->
        IF body[i] = "YES" THEN "yes" ELSE IF body[i] = "NO" THEN "no" ELSE body[i]]

StripText(t) == Text(Strip(t.body), t.len - (Len(t.body) - Len(Strip(t.body))))

\* lines 129-130: reply_text[:MAX_OUTPUT_LENGTH] + "..."
LimitLength(t) ==
    IF t.len > MAX_OUTPUT_LENGTH
    THEN Text(t.body \o <<"...">>, MAX_OUTPUT_LENGTH + 3)
    ELSE t

\* strftime("%Y-%m-%d %H:%M")
FormatMinute(t) == t - (t % 60)

DayStart(t) == t - (t % Day)

\* datetime.replace(hour=h, minute=m): date, second and microsecond are kept
ReplaceHourMinute(base, h, m) == DayStart(base) + h * Hour + m * 60 + (base % 60)

TomorrowAt(h) == DayStart(now + Day) + h * Hour

\* A mutation of CalculateDefaultReminderTime: the parsed time is used whenever
\* there is one, in the future or not.
CalculateDefaultAnyParsed(msg) ==
    IF Contains(<<"tomorrow_am">>, msg.query) THEN TomorrowAt(9)
    ELSE IF Contains(<<"tomorrow_pm">>, msg.query) THEN TomorrowAt(15)
    ELSE IF Contains(<<"tomorrow_eve">>, msg.query) THEN TomorrowAt(20)
    ELSE IF msg.parsed # NoTime THEN msg.parsed
    ELSE now + Hour

CalculateDefaultReminderTime(msg) ==
    IF Contains(<<"tomorrow_am">>, msg.query) THEN TomorrowAt(9)
    ELSE IF Contains(<<"tomorrow_pm">>, msg.query) THEN TomorrowAt(15)
    ELSE IF Contains(<<"tomorrow_eve">>, msg.query) THEN TomorrowAt(20)
    ELSE IF msg.parsed # NoTime /\ msg.parsed > now THEN msg.parsed
    ELSE now + Hour

ExtractTimeCorrection(msg, base_date) ==
    IF msg.parsed # NoTime /\ msg.parsed > now THEN msg.parsed
    ELSE IF msg.hhmm = <<>> THEN NoTime
    ELSE IF msg.hhmm[1] > 23 \/ msg.hhmm[2] > 59 THEN NoTime
    ELSE LET corrected == ReplaceHourMinute(base_date, msg.hhmm[1], msg.hhmm[2])
         IN  IF corrected < now THEN corrected + Day ELSE corrected

\* lines 96-99: what follows the keyword, or the whole query when nothing follows
ReminderSubject(query) ==
    LET idx == CHOOSE i \in 1..Len(query) :
                   /\ query[i] = "remind"
                   /\ \A j \in 1..(i - 1) : query[j] # "remind"
        rest == Strip(SubSeq(query, idx + 1, Len(query)))
    IN  IF rest = <<>> THEN query ELSE rest

Sent(who, what) == [who |-> who, what |-> what]

RmReminder(user, reminder_text, time) ==
    [user |-> user, reminder_text |-> reminder_text, time |-> time]

\* The outcome of one pass of the loop body over one message: the new shared
\* conversation, pending confirmations, stored reminders, request to the language
\* model and messages sent.
Outcome(c, p, r, q, o) ==
    [conv |-> c, pending |-> p, rm |-> r, request |-> q, outbox |-> o]

\* A mutation of PendingRoute: a reply of no cancels the pending request.
PendingRouteNoCancels(sender, msg) ==
    LET pending == pending_reminders[sender]
        correction == ExtractTimeCorrection(msg, pending.suggested_time)
    IN  IF correction # NoTime
        THEN Outcome(conv,
                     With(pending_reminders, sender,
                          [reminder_text |-> pending.reminder_text,
                           suggested_time |-> correction]),
                     rm_reminders, llm_request,
                     <<Sent(sender, <<"confirm", FormatMinute(correction),
                                      pending.reminder_text>>)>>)
        ELSE IF Lower(msg.query) = <<"yes">>
        THEN Outcome(conv, Without(pending_reminders, {sender}),
                     Append(rm_reminders,
                            RmReminder(sender, pending.reminder_text,
                                       pending.suggested_time)),
                     llm_request,
                     <<Sent(sender, <<"scheduled", FormatMinute(pending.suggested_time),
                                      pending.reminder_text>>)>>)
        ELSE IF Lower(msg.query) = <<"no">>
        THEN Outcome(conv, Without(pending_reminders, {sender}), rm_reminders,
                     llm_request, <<Sent(sender, <<"ask_time">>)>>)
        ELSE Outcome(conv, pending_reminders, rm_reminders, llm_request,
                     <<Sent(sender, <<"ask_again">>)>>)

PendingRoute(sender, msg) ==
    LET pending == pending_reminders[sender]
        correction == ExtractTimeCorrection(msg, pending.suggested_time)
    IN  IF correction # NoTime
        THEN Outcome(conv,
                     With(pending_reminders, sender,
                          [reminder_text |-> pending.reminder_text,
                           suggested_time |-> correction]),
                     rm_reminders, llm_request,
                     <<Sent(sender, <<"confirm", FormatMinute(correction),
                                      pending.reminder_text>>)>>)
        ELSE IF Lower(msg.query) = <<"yes">>
        THEN Outcome(conv, Without(pending_reminders, {sender}),
                     Append(rm_reminders,
                            RmReminder(sender, pending.reminder_text,
                                       pending.suggested_time)),
                     llm_request,
                     <<Sent(sender, <<"scheduled", FormatMinute(pending.suggested_time),
                                      pending.reminder_text>>)>>)
        ELSE IF Lower(msg.query) = <<"no">>
        THEN Outcome(conv, pending_reminders, rm_reminders, llm_request,
                     <<Sent(sender, <<"ask_time">>)>>)
        ELSE Outcome(conv, pending_reminders, rm_reminders, llm_request,
                     <<Sent(sender, <<"ask_again">>)>>)

NewReminderRoute(sender, msg) ==
    LET reminder_subject == ReminderSubject(msg.query)
        default_time == CalculateDefaultReminderTime(msg)
    IN  Outcome(conv,
                With(pending_reminders, sender,
                     [reminder_text |-> reminder_subject,
                      suggested_time |-> default_time]),
                rm_reminders, llm_request,
                <<Sent(sender, <<"confirm", FormatMinute(default_time),
                                 reminder_subject>>)>>)

DialogueRoute(sender, msg, llm) ==
    LET asked == AddMessage(conv, "user", From(sender, Text(msg.query, Len(msg.query))))
        request == [sender |-> sender, messages |-> GetHistory(asked)]
        reply_text == LimitLength(StripText(llm.text))
    IN  IF llm.raises
        THEN Outcome(asked, pending_reminders, rm_reminders, request,
                     <<Sent(sender, <<"sorry">>)>>)
        ELSE Outcome(AddMessage(asked, "assistant", From(sender, reply_text)),
                     pending_reminders, rm_reminders, request,
                     <<Sent(sender, <<"reply", reply_text>>)>>)

\* A mutation of HandleResult: the reminder keyword is tested before the pending
\* state of the sender.
HandleKeywordFirst(sender, msg, llm) ==
    IF ~msg.mention
    THEN Outcome(conv, pending_reminders, rm_reminders, llm_request, <<>>)
    ELSE IF Contains(<<"remind">>, msg.query) THEN NewReminderRoute(sender, msg)
    ELSE IF sender \in DOMAIN pending_reminders THEN PendingRoute(sender, msg)
    ELSE DialogueRoute(sender, msg, llm)

HandleResult(sender, msg, llm) ==
    IF ~msg.mention
    THEN Outcome(conv, pending_reminders, rm_reminders, llm_request, <<>>)
    ELSE IF sender \in DOMAIN pending_reminders THEN PendingRoute(sender, msg)
    ELSE IF Contains(<<"remind">>, msg.query) THEN NewReminderRoute(sender, msg)
    ELSE DialogueRoute(sender, msg, llm)

InitMain ==
    /\ conv = NewConversation(SystemPrompt, MainMaxRounds)
    /\ appended = <<>>
    /\ ctx_in = CtxIdle
    /\ ctx_pc = "idle"
    /\ ctx_out = <<>>
    /\ summarizer_calls = <<>>
    /\ MemoIdle
    /\ MainIdle
    /\ RaceIdle
    /\ TestIdle
    /\ FnIdle

HandleMessage(sender, msg, llm) ==
    /\ handled < MaxIncoming
    /\ LET res == HandleResult(sender, msg, llm)
       IN  /\ conv' = res.conv
           /\ pending_reminders' = res.pending
           /\ rm_reminders' = res.rm
           /\ llm_request' = res.request
           /\ outbox' = res.outbox
    /\ handled' = handled + 1
    /\ UNCHANGED <<appended, ctxVars, memoVars, rm_alive, raceVars, fnVars, testVars>>

handle_message ==
    \E sender \in Chats, msg \in MainMessages, llm \in LLMOutcomes :
        HandleMessage(sender, msg, llm)

\* ReminderManager.run, one pass under the lock: the due reminders, in list order,
\* are sent and removed; a send that raises ends the thread with the reminder and
\* all later ones still stored.
DueIndexes == {i \in 1..Len(rm_reminders) : now >= rm_reminders[i].time}

NthDue(n) ==
    CHOOSE i \in DueIndexes : Cardinality({j \in DueIndexes : j <= i}) = n

SelectIndexes(s, keep) ==
    LET F[i \in 0..Len(s)] ==
            IF i = 0 THEN <<>>
            ELSE IF i \in keep THEN Append(F[i - 1], s[i]) ELSE F[i - 1]
    IN  F[Len(s)]

rm_run ==
    /\ rm_alive
    /\ \E sent \in 0..Cardinality(DueIndexes), raises \in BOOLEAN :
          /\ raises => sent < Cardinality(DueIndexes)
          /\ ~raises => sent = Cardinality(DueIndexes)
          /\ LET gone == {NthDue(n) : n \in 1..sent}
             IN  /\ rm_reminders' =
                        SelectIndexes(rm_reminders, (1..Len(rm_reminders)) \ gone)
                 /\ outbox' =
                        [n \in 1..sent |->
                            Sent(rm_reminders[NthDue(n)].user,
                                 <<"Reminder", rm_reminders[NthDue(n)].reminder_text>>)]
          /\ rm_alive' = ~raises
    /\ UNCHANGED <<convVars, ctxVars, memoVars, pending_reminders, llm_request, handled,
                   raceVars, fnVars, testVars>>

MainTick ==
    /\ now < MaxHours * Hour
    /\ now' = now + Hour
    /\ UNCHANGED <<convVars, ctxVars, pending_users, reminders, swept, delivered,
                   next_id, mainVars, raceVars, fnVars, testVars>>

NextMain == handle_message \/ rm_run \/ MainTick

SpecMain == InitMain /\ [][NextMain]_vars

\* C5: chats are isolated: whenever the language model is asked on behalf of one
\* chat, no message received from another chat and no reply sent to another chat is
\* part of the message sequence it is given.
C5_ChatsIsolated ==
    \A i \in 1..Len(llm_request.messages) :
        NotSystem(llm_request.messages[i])
            => llm_request.messages[i].content.chat = llm_request.sender

----------------------------------------------------------------------------
(* Further properties of build_context                                     *)

\* The summarizer's call raised, or answered nothing but whitespace.
SummarizerFailed == ctx_in.outcome.raises \/ Strip(ctx_in.outcome.text) = <<>>

(* C12: when summarization is triggered (more than R*2 non-system          *)
(* messages) and the summarizer raises or answers empty text,              *)
(* build_context still returns: the output is the system prompt, then      *)
(* only non-system messages that are the most recent ones of the input (a  *)
(* suffix of them holding at least the last K*2), then the constraint      *)
(* message, and no summary message is in it.                               *)
C12_FailedSummaryOmitted ==
    (ctx_pc = "done" /\ Len(InNonSystem) > InThreshold /\ SummarizerFailed) =>
        /\ Len(summarizer_calls) = 1
        /\ ctx_out = <<Msg("system", ctx_in.system_prompt)>> \o OutMiddle
                        \o <<Msg("system", LengthConstraint)>>
        /\ \A i \in 1..Len(OutMiddle) : NotSystem(OutMiddle[i])
        /\ IsSuffix(OutMiddle, InNonSystem)
        /\ IsSuffix(LastN(InNonSystem, InWindow), OutMiddle)

\* The summarizer was called on older messages and raised; the call returned the
\* prompt, the two recent messages and the constraint.
C12_Witness ==
    /\ ctx_pc = "done"
    /\ Len(InNonSystem) > InThreshold
    /\ ctx_in.outcome.raises
    /\ ctx_in.recent_rounds = 1
    /\ Len(InNonSystem) = 4
    /\ Len(ctx_out) = 4

(* C18: for every window size K >= 0 and every conversation with n         *)
(* non-system messages, the non-system messages of build_context's output  *)
(* are exactly the last min(K*2, n) non-system messages of the input, in   *)
(* their order.                                                            *)
C18_RecentIsLastWindow ==
    ctx_pc = "done" => SelectSeq(ctx_out, NotSystem) = LastN(InNonSystem, InWindow)

\* The same statement for a window of at least one round: what the code does keep.
C18_HoldsForPositiveWindow ==
    ctx_in.recent_rounds >= 1 => C18_RecentIsLastWindow

----------------------------------------------------------------------------
(* utils.py: trim_conversation_history, and the snapshot of the store      *)

TrimConversationHistory(messages, max_rounds) ==
    SelectSeq(messages, IsSystem) \o PySuffix(SelectSeq(messages, NotSystem), max_rounds * 2)

\* Everything appended to the store so far, the constructor's prompt included.
AllAppended == <<conv.system_messages[1]>> \o appended

\* The snapshot the claims describe: the system messages in append order, then the
\* last max_rounds*2 non-system messages (all of them when fewer were appended).
WindowSnapshot(messages, max_rounds) ==
    SelectSeq(messages, IsSystem) \o LastN(SelectSeq(messages, NotSystem), max_rounds * 2)

(* C17: for every max_rounds >= 0 and every sequence of appends, the       *)
(* snapshot get_history returns, and trim_conversation_history applied to  *)
(* the full list of appended messages, both equal all appended system      *)
(* messages in append order followed by the last max_rounds*2 appended     *)
(* non-system messages in append order.                                    *)
C17_SnapshotIsWindow ==
    LET max_rounds == conv.max_history \div 2
    IN  /\ GetHistory(conv) = WindowSnapshot(AllAppended, max_rounds)
        /\ TrimConversationHistory(AllAppended, max_rounds)
               = WindowSnapshot(AllAppended, max_rounds)

\* The same statement for at least one round: what the code does keep.
C17_HoldsForPositiveRounds ==
    conv.max_history >= 2 => C17_SnapshotIsWindow

----------------------------------------------------------------------------
(* utils.py: clean_sender.  A name is a sequence of characters.            *)

MaxNameLen == 4

NameChars == {" ", "a", "3", "(", ")", "FW(", "FW)"}

OpenParens == {"(", "FW("}     \* [\(（]

CloseParens == {")", "FW)"}    \* [\)）]

Digits == {"3"}                \* \d

Names == UNION {[1..k -> NameChars] : k \in 0..MaxNameLen}

\* the first position from i on that does not hold a character of class
RECURSIVE SkipClass(_, _, _)
SkipClass(s, i, class) ==
    IF i <= Len(s) /\ s[i] \in class THEN SkipClass(s, i + 1, class) ELSE i

\* The length of the match of [\(（]\s*\d+\s*[\)）] that starts at position i of s,
\* or 0 when there is none.  The character classes are disjoint, so the greedy
\* match is the only one.
MatchLenAt(s, i) ==
    IF i > Len(s) \/ s[i] \notin OpenParens THEN 0
    ELSE LET d == SkipClass(s, i + 1, {" "})
             e == SkipClass(s, d, Digits)
             c == SkipClass(s, e, {" "})
         IN  IF e > d /\ c <= Len(s) /\ s[c] \in CloseParens THEN c - i + 1 ELSE 0

\* re.sub(pattern, '', s): every match, leftmost first and not overlapping, is
\* removed
RECURSIVE ReSubFrom(_, _)
ReSubFrom(s, i) ==
    IF i > Len(s) THEN <<>>
    ELSE IF MatchLenAt(s, i) > 0 THEN ReSubFrom(s, i + MatchLenAt(s, i))
    ELSE <<s[i]>> \o ReSubFrom(s, i + 1)

CleanSender(sender) == Strip(ReSubFrom(Strip(sender), 1))

InitClean ==
    /\ conv = NewConversation(<<"p1">>, 0)
    /\ appended = <<>>
    /\ ctx_in = CtxIdle
    /\ ctx_pc = "idle"
    /\ ctx_out = <<>>
    /\ summarizer_calls = <<>>
    /\ MemoIdle
    /\ MainIdle
    /\ RaceIdle
    /\ TestIdle
    /\ \E sender \in Names : fn_in = [fn |-> "clean_sender", sender |-> sender]
    /\ fn_out = [returned |-> FALSE]

clean_sender ==
    /\ fn_in.fn = "clean_sender"
    /\ ~fn_out.returned
    /\ fn_out' = [returned |-> TRUE, value |-> CleanSender(fn_in.sender)]
    /\ UNCHANGED <<convVars, ctxVars, memoVars, mainVars, raceVars, fn_in, testVars>>

NextClean == clean_sender

SpecClean == InitClean /\ [][NextClean]_vars

\* The positions at which a parenthesized number starts that runs to the end of s.
TrailingGroups(s) == {i \in 1..Len(s) : MatchLenAt(s, i) = Len(s) - i + 1}

\* What the claim describes: the stripped name without its trailing parenthesized
\* number, if it has one, and nothing else changed but surrounding whitespace.
WithoutTrailingGroup(sender) ==
    LET s == Strip(sender)
    IN  IF TrailingGroups(s) = {} THEN s
        ELSE Strip(SubSeq(s, 1, (CHOOSE i \in TrailingGroups(s) : TRUE) - 1))

(* C14: clean_sender returns its input with surrounding whitespace         *)
(* stripped and a trailing parenthesized-number suffix (ASCII or           *)
(* full-width parentheses) removed, and every other character of the name  *)
(* unchanged.                                                              *)
C14_OnlyTrailingSuffixRemoved ==
    (fn_in.fn = "clean_sender" /\ fn_out.returned) =>
        fn_out.value = WithoutTrailingGroup(fn_in.sender)

\* The three examples of the claim, which the code does satisfy.
C14_Examples ==
    (fn_in.fn = "clean_sender" /\ fn_out.returned) =>
        /\ fn_in.sender = <<"a", "FW(", "3", "FW)">> => fn_out.value = <<"a">>
        /\ fn_in.sender = <<"a", "(", "3", ")">> => fn_out.value = <<"a">>
        /\ fn_in.sender = <<" ", "a", " ">> => fn_out.value = <<"a">>

----------------------------------------------------------------------------
(* helpers.py called on its own: every clock value, text, parser outcome   *)
(* and base timestamp of a bounded set.                                    *)

MaxDays == 3

HelperTimes ==
    {d * Day + h : d \in 0..MaxDays, h \in {Hour, 10 * Hour, 10 * Hour + 30}}

HelperQueries ==
    {<<"hi">>, <<"tomorrow_am">>, <<"tomorrow_pm">>, <<"tomorrow_eve">>,
     <<"tomorrow_pm", "tomorrow_am">>, <<"tomorrow_eve", "tomorrow_pm">>}

HelperTimesOfDay == {<<>>, <<1, 0>>, <<10, 0>>, <<25, 0>>, <<9, 60>>}

InitHelpers ==
    /\ conv = NewConversation(<<"p1">>, 0)
    /\ appended = <<>>
    /\ ctx_in = CtxIdle
    /\ ctx_pc = "idle"
    /\ ctx_out = <<>>
    /\ summarizer_calls = <<>>
    /\ now \in HelperTimes
    /\ pending_users = EmptyMap
    /\ reminders = EmptyMap
    /\ swept = {}
    /\ delivered = {}
    /\ next_id = 1
    /\ MainIdle
    /\ RaceIdle
    /\ TestIdle
    /\ \/ \E q \in HelperQueries, parsed \in HelperTimes \cup {NoTime} :
             fn_in = [fn |-> "calculate_default_reminder_time",
                      msg |-> Incoming(TRUE, q, parsed, <<>>), base_date |-> NoTime]
       \/ \E parsed \in HelperTimes \cup {NoTime}, hhmm \in HelperTimesOfDay,
             base_date \in HelperTimes :
             fn_in = [fn |-> "extract_time_correction",
                      msg |-> Incoming(TRUE, <<"hi">>, parsed, hhmm),
                      base_date |-> base_date]
    /\ fn_out = [returned |-> FALSE]

calculate_default_reminder_time ==
    /\ fn_in.fn = "calculate_default_reminder_time"
    /\ ~fn_out.returned
    /\ fn_out' = [returned |-> TRUE, value |-> CalculateDefaultReminderTime(fn_in.msg)]
    /\ UNCHANGED <<convVars, ctxVars, memoVars, mainVars, raceVars, fn_in, testVars>>

extract_time_correction ==
    /\ fn_in.fn = "extract_time_correction"
    /\ ~fn_out.returned
    /\ fn_out' = [returned |-> TRUE,
                  value |-> ExtractTimeCorrection(fn_in.msg, fn_in.base_date)]
    /\ UNCHANGED <<convVars, ctxVars, memoVars, mainVars, raceVars, fn_in, testVars>>

NextHelpers == calculate_default_reminder_time \/ extract_time_correction

SpecHelpers == InitHelpers /\ [][NextHelpers]_vars

Has(query, word) == \E i \in 1..Len(query) : query[i] = word

\* h o'clock on the calendar day after the current one
TomorrowAtHour(h) == ((now \div Day) + 1) * Day + h * Hour

ValidTimeOfDay(hhmm) == hhmm # <<>> /\ hhmm[1] <= 23 /\ hhmm[2] <= 59

(* C16: extract_time_correction returns the parsed timestamp only if it is *)
(* strictly after now; otherwise the HH:MM of the utterance on the base    *)
(* timestamp's date, one day later if that time has passed; otherwise no   *)
(* correction (a normal return).  A returned timestamp is never earlier    *)
(* than the current time.                                                  *)
C16_CorrectionNotInPast ==
    (fn_in.fn = "extract_time_correction" /\ fn_out.returned) =>
        LET parsed == fn_in.msg.parsed
            hhmm == fn_in.msg.hhmm
            onBaseDate == (fn_in.base_date \div Day) * Day + hhmm[1] * Hour
                            + hhmm[2] * 60 + (fn_in.base_date % 60)
        IN  /\ (parsed # NoTime /\ parsed > now) => fn_out.value = parsed
            /\ (~(parsed # NoTime /\ parsed > now) /\ ValidTimeOfDay(hhmm)) =>
                   fn_out.value = IF onBaseDate < now THEN onBaseDate + Day
                                  ELSE onBaseDate
            /\ (~(parsed # NoTime /\ parsed > now) /\ ~ValidTimeOfDay(hhmm)) =>
                   fn_out.value = NoTime
            /\ fn_out.value # NoTime => fn_out.value >= now

\* The same statement for a base timestamp whose date is not before today.
C16_HoldsForCurrentBase ==
    (fn_in.fn = "extract_time_correction" /\ fn_in.base_date \div Day >= now \div Day)
        => C16_CorrectionNotInPast

----------------------------------------------------------------------------
(* The delivery loops                                                      *)

(* C13: a send that raises does not end the delivery loop of               *)
(* ReminderManager: the thread is still running after it, so that the      *)
(* other reminders are delivered on later passes.                          *)
C13_LoopSurvivesSendFailure == rm_alive

\* A reminder that a step delivers was stored and due before the step, and is not
\* stored after it.
C19_DeliveredWhenDue ==
    \A i \in ReminderIds :
        (i \in delivered' /\ i \notin delivered) => (Overdue(i) /\ ~Stored(i)')

\* A delivered reminder stays delivered and is never in the store again, so that no
\* later pass can deliver it a second time.
C19_DeliveredOnce ==
    \A i \in delivered : i \in delivered' /\ ~Stored(i)'

(* C19: in every run of reminder_checker with process_message calls, no    *)
(* reminder is delivered while the clock is before its due time, no        *)
(* reminder is delivered more than once, and a delivered reminder is not   *)
(* in the store when the pass (and with it the mutex) ends.                *)
C19_DeliverySafe == [][C19_DeliveredWhenDue /\ C19_DeliveredOnce]_vars

\* A pass has delivered one reminder and left another one, not due yet, stored.
C19_Witness ==
    /\ delivered # {}
    /\ \E u \in DOMAIN reminders : \E j \in 1..Len(reminders[u]) :
          reminders[u][j].remind_time > now

----------------------------------------------------------------------------
(* memo_manager.py with its two threads interleaved.  process_message runs *)
(* on the intake thread, reminder_checker on its own thread; a step is one *)
(* block under the mutex, or one statement (or loop) outside it.           *)

RaceMessages ==
    {Command(k, TRUE, <<>>, <<>>, NoTimeString) : k \in {"handshake", "view"}}
      \cup {Command("delete", TRUE, <<"a">>, <<>>, NoTimeString)}
      \cup {Command("modify", TRUE, <<"a">>, <<"a">>, t) : t \in TimeStrings}
      \cup {Command("add", TRUE, <<>>, <<"a">>, t) : t \in TimeStrings}
      \cup {Command("add", TRUE, <<>>, <<"a">>, BadDate)}

\* the position in list of the Reminder object id, 0 when it is not in the list
RECURSIVE IndexOfId(_, _, _)
IndexOfId(list, id, i) ==
    IF i > Len(list) THEN 0
    ELSE IF list[i].id = id THEN i
    ELSE IndexOfId(list, id, i + 1)

\* list(d.keys()): the keys in one order
RECURSIVE KeyList(_)
KeyList(keys) ==
    IF keys = {} THEN <<>>
    ELSE LET k == CHOOSE x \in keys : TRUE IN <<k>> \o KeyList(keys \ {k})

PmReturn == [pm EXCEPT !.pc = "idle", !.found = 0]

InitRace ==
    /\ conv = NewConversation(<<"p1">>, 0)
    /\ appended = <<>>
    /\ ctx_in = CtxIdle
    /\ ctx_pc = "idle"
    /\ ctx_out = <<>>
    /\ summarizer_calls = <<>>
    /\ MemoIdle
    /\ MainIdle
    /\ RaceIdle
    /\ TestIdle
    /\ FnIdle

\* line 49: process_message is called and runs cleanup_pending under the mutex
pm_call ==
    /\ pm.pc = "idle"
    /\ lock = "free"
    /\ \E username \in Users, m \in RaceMessages :
          /\ m.kind = "add" => next_id <= MaxReminders
          /\ pm' = [pm EXCEPT !.pc = "dispatch", !.username = username, !.m = m,
                              !.found = 0, !.raised = FALSE, !.lost_update = FALSE]
    /\ pending_users' = CleanupPending(pending_users, now)
    /\ swept' = DOMAIN pending_users \ DOMAIN CleanupPending(pending_users, now)
    /\ UNCHANGED <<now, reminders, delivered, next_id, rc, lock,
                   convVars, ctxVars, mainVars, fnVars, testVars>>

\* lines 54-62 and 65-73: the handshake (under the mutex) and the view
pm_handshake_or_view ==
    /\ pm.pc = "dispatch"
    /\ pm.m.kind \in {"handshake", "view"}
    /\ pm.m.kind = "handshake" => lock = "free"
    /\ pending_users' = IF pm.m.kind = "handshake"
                        THEN With(pending_users, pm.username, now)
                        ELSE pending_users
    /\ pm' = PmReturn
    /\ UNCHANGED <<now, reminders, swept, delivered, next_id, rc, lock,
                   convVars, ctxVars, mainVars, fnVars, testVars>>

\* lines 76-87 and 98-126: delete and modify up to the end of their search loop;
\* the mutex is not taken
pm_find ==
    /\ pm.pc = "dispatch"
    /\ pm.m.kind \in {"delete", "modify"}
    /\ LET keyword == Strip(pm.m.keyword)
           rejected == IF pm.m.kind = "delete" THEN keyword = <<>>
                       ELSE \/ ~pm.m.wellformed
                            \/ ~pm.m.time_str.valid
                            \/ TimePassed(Strptime(pm.m.time_str), now)
           list == ListOf(reminders, pm.username)
           found == FindFirst(list, keyword, 1)
       IN  pm' = IF rejected \/ found = 0 THEN PmReturn
                 ELSE [pm EXCEPT !.found = list[found].id,
                                 !.pc = IF pm.m.kind = "delete" THEN "delete_remove"
                                        ELSE "modify_write"]
    /\ UNCHANGED <<memoVars, rc, lock, convVars, ctxVars, mainVars, fnVars, testVars>>

\* line 89: self.reminders[username].remove(found), ValueError when found is no
\* longer in the list
pm_delete_remove ==
    /\ pm.pc = "delete_remove"
    /\ LET at == IndexOfId(reminders[pm.username], pm.found, 1)
       IN  IF at = 0
           THEN /\ pm' = [PmReturn EXCEPT !.raised = TRUE]
                /\ UNCHANGED reminders
           ELSE /\ pm' = [PmReturn EXCEPT !.deleted = @ \cup {pm.found}]
                /\ reminders' = [reminders EXCEPT ![pm.username] = RemoveAt(@, at)]
    /\ UNCHANGED <<now, pending_users, swept, delivered, next_id, rc, lock,
                   convVars, ctxVars, mainVars, fnVars, testVars>>

\* lines 128-135: the found object is rewritten and success is reported, whether
\* the object is still in the list or not
pm_modify_write ==
    /\ pm.pc = "modify_write"
    /\ LET at == IndexOfId(reminders[pm.username], pm.found, 1)
           new == Reminder(pm.found, Strip(pm.m.content), Strptime(pm.m.time_str),
                           pm.m.time_str)
       IN  IF at = 0
           THEN /\ pm' = [PmReturn EXCEPT !.lost_update = TRUE]
                /\ UNCHANGED reminders
           ELSE /\ pm' = PmReturn
                /\ reminders' = [reminders EXCEPT ![pm.username][at] = new]
    /\ UNCHANGED <<now, pending_users, swept, delivered, next_id, rc, lock,
                   convVars, ctxVars, mainVars, fnVars, testVars>>

\* lines 144-149: under the mutex, the handshake is looked up and deleted
pm_add_consume ==
    /\ pm.pc = "dispatch"
    /\ pm.m.kind = "add"
    /\ lock = "free"
    /\ IF pm.username \in DOMAIN pending_users
       THEN /\ pending_users' = ConsumeHandshake(pending_users, pm.username)
            /\ pm' = [pm EXCEPT !.pc = "add_validate"]
       ELSE /\ pm' = PmReturn
            /\ UNCHANGED pending_users
    /\ UNCHANGED <<now, reminders, swept, delivered, next_id, rc, lock,
                   convVars, ctxVars, mainVars, fnVars, testVars>>

\* lines 153-174: outside the mutex, the command is parsed and its time tested
pm_add_validate ==
    /\ pm.pc = "add_validate"
    /\ pm' = IF \/ ~pm.m.wellformed
                \/ ~pm.m.time_str.valid
                \/ TimePassed(Strptime(pm.m.time_str), now)
             THEN PmReturn
             ELSE [pm EXCEPT !.pc = "add_insert"]
    /\ UNCHANGED <<memoVars, rc, lock, convVars, ctxVars, mainVars, fnVars, testVars>>

\* lines 175-178: under the mutex again, the reminder is appended
pm_add_insert ==
    /\ pm.pc = "add_insert"
    /\ lock = "free"
    /\ reminders' = With(reminders, pm.username,
                         Append(ListOf(reminders, pm.username),
                                Reminder(next_id, Strip(pm.m.content),
                                         Strptime(pm.m.time_str), pm.m.time_str)))
    /\ next_id' = next_id + 1
    /\ pm' = PmReturn
    /\ UNCHANGED <<now, pending_users, swept, delivered, rc, lock,
                   convVars, ctxVars, mainVars, fnVars, testVars>>

\* line 188: the checker wakes up and reads the clock
rc_read_clock ==
    /\ rc.alive
    /\ rc.pc = "sleep"
    /\ rc' = [rc EXCEPT !.pc = "acquire", !.now = now]
    /\ UNCHANGED <<memoVars, pm, lock, convVars, ctxVars, mainVars, fnVars, testVars>>

\* lines 189-190: it takes the mutex and lists the users
rc_acquire ==
    /\ rc.pc = "acquire"
    /\ lock = "free"
    /\ lock' = "rc"
    /\ rc' = [rc EXCEPT !.pc = "scan", !.users = KeyList(DOMAIN reminders), !.queue = <<>>]
    /\ UNCHANGED <<memoVars, pm, convVars, ctxVars, mainVars, fnVars, testVars>>

\* line 191: the next user's list is copied
rc_next_user ==
    /\ rc.pc = "scan"
    /\ rc.queue = <<>>
    /\ rc.users # <<>>
    /\ rc' = [rc EXCEPT !.users = Tail(@), !.username = Head(rc.users),
                        !.queue = reminders[Head(rc.users)]]
    /\ UNCHANGED <<memoVars, pm, lock, convVars, ctxVars, mainVars, fnVars, testVars>>

\* The object at the head of the copy, as it is now: modify rewrites the object
\* itself, which the copy shares with the list.
RcHead ==
    LET at == IndexOfId(reminders[rc.username], Head(rc.queue).id, 1)
    IN  IF at = 0 THEN Head(rc.queue) ELSE reminders[rc.username][at]

\* lines 192-193: the next reminder of the copy is tested and, when due, printed
rc_check ==
    /\ rc.pc = "scan"
    /\ rc.queue # <<>>
    /\ IF StillWaiting(RcHead, rc.now)
       THEN /\ rc' = [rc EXCEPT !.queue = Tail(@)]
            /\ UNCHANGED delivered
       ELSE /\ rc' = [rc EXCEPT !.pc = "remove"]
            /\ delivered' = delivered \cup {Head(rc.queue).id}
    /\ UNCHANGED <<now, pending_users, reminders, swept, next_id, pm, lock,
                   convVars, ctxVars, mainVars, fnVars, testVars>>

\* line 194: self.reminders[username].remove(rem); a ValueError, when the
\* reminder is no longer in the list, ends the thread and frees the mutex
rc_remove ==
    /\ rc.pc = "remove"
    /\ LET at == IndexOfId(reminders[rc.username], Head(rc.queue).id, 1)
       IN  IF at = 0
           THEN /\ rc' = [rc EXCEPT !.pc = "dead", !.alive = FALSE,
                                    !.users = <<>>, !.queue = <<>>]
                /\ lock' = "free"
                /\ UNCHANGED reminders
           ELSE /\ rc' = [rc EXCEPT !.pc = "scan", !.queue = Tail(@)]
                /\ reminders' = [reminders EXCEPT ![rc.username] = RemoveAt(@, at)]
                /\ UNCHANGED lock
    /\ UNCHANGED <<now, pending_users, swept, delivered, next_id, pm,
                   convVars, ctxVars, mainVars, fnVars, testVars>>

\* lines 189 and 195: the pass is over, the mutex is freed and the thread sleeps
rc_release ==
    /\ rc.pc = "scan"
    /\ rc.queue = <<>>
    /\ rc.users = <<>>
    /\ lock' = "free"
    /\ rc' = [rc EXCEPT !.pc = "sleep"]
    /\ UNCHANGED <<memoVars, pm, convVars, ctxVars, mainVars, fnVars, testVars>>

NextRace ==
    \/ pm_call \/ pm_handshake_or_view \/ pm_find \/ pm_delete_remove
    \/ pm_modify_write \/ pm_add_consume \/ pm_add_validate \/ pm_add_insert
    \/ rc_read_clock \/ rc_acquire \/ rc_next_user \/ rc_check \/ rc_remove
    \/ rc_release \/ Tick

SpecRace == InitRace /\ [][NextRace]_vars

(* C11: in the structured add, consuming the handshake and inserting the   *)
(* reminder are one atomic step under the mutex: the delivery loop never   *)
(* holds the mutex while an add has consumed its handshake and has not     *)
(* yet stored its reminder.                                                *)
C11_ConsumeInsertAtomic ==
    pm.pc = "add_insert" => lock # "rc"

(* C20: delete and modify are atomic with respect to the delivery loop: no *)
(* reminder is both fired by the loop and deleted by its owner, neither    *)
(* the delete nor the loop fails on a reminder the other one removed in    *)
(* between, and a modify that reports success has rewritten a reminder     *)
(* that is still in the store.                                             *)
C20_DeleteModifyAtomic ==
    /\ delivered \cap pm.deleted = {}
    /\ ~pm.raised
    /\ rc.alive
    /\ ~pm.lost_update

----------------------------------------------------------------------------
(* Further properties of build_context and of MemoManager.process_message  *)

OutSystem == SelectSeq(ctx_out, IsSystem)

IsSummaryMessage(m) ==
    IsSystem(m) /\ IsPrefix(SummaryPrefix, m.content) /\ Len(m.content) > Len(SummaryPrefix)

(* C23: for every K >= 1 and every input conversation, the output of       *)
(* build_context holds at most K*2 non-system messages and two or three    *)
(* system messages: the given prompt, the summary if there is one, and     *)
(* the constraint; so at most K*2 + 3 messages, and no system message of   *)
(* the input conversation is in it.                                        *)
C23_ContextBounded ==
    (ctx_pc = "done" /\ ctx_in.recent_rounds >= 1) =>
        /\ Len(SelectSeq(ctx_out, NotSystem)) <= InWindow
        /\ Len(ctx_out) <= InWindow + 3
        /\ \/ OutSystem = <<Msg("system", ctx_in.system_prompt),
                            Msg("system", LengthConstraint)>>
           \/ /\ Len(OutSystem) = 3
              /\ OutSystem[1] = Msg("system", ctx_in.system_prompt)
              /\ IsSummaryMessage(OutSystem[2])
              /\ OutSystem[3] = Msg("system", LengthConstraint)
        /\ \A i \in 1..Len(ctx_in.conversation) :
              IsSystem(ctx_in.conversation[i]) =>
                 \A j \in 1..Len(ctx_out) : ctx_out[j] # ctx_in.conversation[i]

\* The input holds a system message and more turns than the window; the output
\* has the full K*2 + 3 messages, the summary among them.
C23_Witness ==
    /\ ctx_pc = "done"
    /\ ctx_in.recent_rounds = 1
    /\ \E i \in 1..Len(ctx_in.conversation) : IsSystem(ctx_in.conversation[i])
    /\ Len(InNonSystem) = 3
    /\ Len(ctx_out) = 5
    /\ Len(OutSystem) = 3

\* An add that process_message rejects for its form or its time.
RejectedAdds ==
    {m \in Adds : ~m.wellformed \/ ~m.time_str.valid \/ m.time_str.minute < now}

C24_RejectionConsumes ==
    \A u \in Users : \A m \in RejectedAdds :
        LiveHandshake(u) =>
            /\ ProcessResult(u, m).reminders = reminders
            /\ u \notin DOMAIN ProcessResult(u, m).pending
            /\ ProcessResult(u, m).responses \in
                  {<<Resp("add_format_error")>>, <<Resp("time_format_error")>>,
                   <<Resp("time_passed")>>}

C24_NextAddNotInitialized ==
    \A u \in Users : \A m \in RejectedAdds :
        (LiveHandshake(u) /\ ProcessMessage(u, m)) =>
            /\ reminders' = reminders
            /\ u \notin DOMAIN pending_users'
            /\ \A m2 \in Adds :
                  (ProcessResult(u, m2).responses = <<Resp("not_initialized")>>)'

(* C24: an add from a user with a valid handshake that is rejected because *)
(* it is malformed or its time has passed leaves every reminder list       *)
(* unchanged and consumes the handshake: the same user's next add is       *)
(* answered with the not-initialized guidance.                             *)
C24_RejectedAddConsumesHandshake ==
    []C24_RejectionConsumes /\ [][C24_NextAddNotInitialized]_vars

\* A user holds a live handshake at a time at which a well-formed add names a
\* time that has passed: the add is answered with the time-passed message and
\* the handshake is gone, while another user's reminder is stored.
C24_Witness ==
    \E u \in Users :
        /\ LiveHandshake(u)
        /\ \E v \in Users \ {u} : ListOf(reminders, v) # <<>>
        /\ \E m \in RejectedAdds :
              /\ m.wellformed /\ m.time_str.valid
              /\ ProcessResult(u, m).responses = <<Resp("time_passed")>>
              /\ u \notin DOMAIN ProcessResult(u, m).pending

(* C25: process_message called for user u never adds, removes or changes a *)
(* reminder of another user, and changes another user's pending handshake  *)
(* only by removing it once it is older than 120 seconds.                  *)
C25_OtherUsersUntouched ==
    \A u \in Users : \A m \in Messages : \A v \in Users \ {u} :
        LET res == ProcessResult(u, m)
        IN  /\ (v \in DOMAIN res.reminders) = (v \in DOMAIN reminders)
            /\ ListOf(res.reminders, v) = ListOf(reminders, v)
            /\ v \in DOMAIN res.pending =>
                  (v \in DOMAIN pending_users /\ res.pending[v] = pending_users[v])
            /\ (v \in DOMAIN pending_users /\ v \notin DOMAIN res.pending) =>
                  now - pending_users[v] > PendingTimeout

\* Another user has a reminder and a handshake that is exactly 120 seconds old.
C25_Witness ==
    \E v \in Users :
        /\ v \in DOMAIN reminders /\ reminders[v] # <<>>
        /\ v \in DOMAIN pending_users /\ now - pending_users[v] = PendingTimeout

----------------------------------------------------------------------------
(* main.py: the routes of the intake loop                                  *)

\* The message of the conversation store that a query of a chat becomes.
UserMessage(sender, msg) ==
    Msg("user", From(sender, Text(msg.query, Len(msg.query))))

(* C21: every incoming message takes exactly one route, by the precedence  *)
(* pending reminder state of the sender, then the reminder keyword, then   *)
(* dialogue.  A message handled by a reminder route is not appended to the *)
(* conversation store and causes no language-model call; a message without *)
(* the mention prefix changes no state and sends nothing.                  *)
C21_OneRouteByPrecedence ==
    \A sender \in Chats : \A msg \in MainMessages : \A llm \in LLMOutcomes :
        LET res == HandleResult(sender, msg, llm)
            hasPending == sender \in DOMAIN pending_reminders
            keyword == Has(msg.query, "remind")
            storeUntouched == res.conv = conv /\ res.request = llm_request
        IN  /\ ~msg.mention =>
                  /\ storeUntouched
                  /\ res.pending = pending_reminders
                  /\ res.rm = rm_reminders
                  /\ res.outbox = <<>>
            /\ (msg.mention /\ hasPending) =>
                  /\ storeUntouched
                  /\ Len(res.outbox) = 1 /\ res.outbox[1].who = sender
                  /\ res.outbox[1].what[1] \in
                         {"confirm", "scheduled", "ask_time", "ask_again"}
                  /\ sender \in DOMAIN res.pending =>
                         res.pending[sender].reminder_text
                             = pending_reminders[sender].reminder_text
            /\ (msg.mention /\ ~hasPending /\ keyword) =>
                  /\ storeUntouched
                  /\ res.rm = rm_reminders
                  /\ sender \in DOMAIN res.pending
                  /\ Len(res.outbox) = 1 /\ res.outbox[1].what[1] = "confirm"
            /\ (msg.mention /\ ~hasPending /\ ~keyword) =>
                  /\ res.pending = pending_reminders
                  /\ res.rm = rm_reminders
                  /\ res.request.sender = sender
                  /\ res.request.messages # <<>>
                  /\ res.request.messages[Len(res.request.messages)]
                         = UserMessage(sender, msg)
                  /\ \E i \in 1..Len(res.conv.user_assistant_history) :
                         res.conv.user_assistant_history[i] = UserMessage(sender, msg)
                  /\ Len(res.outbox) = 1
                  /\ res.outbox[1].what[1] \in {"reply", "sorry"}

\* One chat has been answered by the language model and another one is waiting
\* for the confirmation of a reminder whose text differs from what a new request
\* with the keyword alone would suggest.
C21_Witness ==
    /\ llm_request.sender = "B"
    /\ Len(conv.user_assistant_history) = 2
    /\ "A" \in DOMAIN pending_reminders
    /\ pending_reminders["A"].reminder_text = <<"meet">>

\* The replies of the confirm/correct flow.
IsYes(msg) == Lower(msg.query) = <<"yes">>

IsCorrection(msg) ==
    (msg.parsed # NoTime /\ msg.parsed > now) \/ ValidTimeOfDay(msg.hhmm)

C22_Replies ==
    \A sender \in DOMAIN pending_reminders : \A llm \in LLMOutcomes :
        \A msg \in {m \in MainMessages : m.mention} :
            LET res == HandleResult(sender, msg, llm)
                pending == pending_reminders[sender]
            IN  /\ (IsYes(msg) /\ ~IsCorrection(msg)) =>
                      /\ res.rm = Append(rm_reminders,
                                         RmReminder(sender, pending.reminder_text,
                                                    pending.suggested_time))
                      /\ res.pending = Without(pending_reminders, {sender})
                /\ IsCorrection(msg) =>
                      /\ res.rm = rm_reminders
                      /\ DOMAIN res.pending = DOMAIN pending_reminders
                      /\ \A other \in DOMAIN pending_reminders \ {sender} :
                             res.pending[other] = pending_reminders[other]
                      /\ res.pending[sender].reminder_text = pending.reminder_text
                      /\ res.pending[sender].suggested_time # NoTime
                /\ (~IsYes(msg) /\ ~IsCorrection(msg)) =>
                      /\ res.rm = rm_reminders
                      /\ res.pending = pending_reminders

\* A step that removes a pending request is the confirmation of that request.
C22_RemovedOnlyByYes ==
    \A sender \in Chats :
        (sender \in DOMAIN pending_reminders /\ sender \notin DOMAIN pending_reminders') =>
            /\ rm_reminders' =
                   Append(rm_reminders,
                          RmReminder(sender, pending_reminders[sender].reminder_text,
                                     pending_reminders[sender].suggested_time))
            /\ Len(outbox') = 1 /\ outbox'[1].who = sender
            /\ outbox'[1].what[1] = "scheduled"

(* C22: while a sender has a pending request, a reply of yes stores exactly *)
(* one reminder with the pending text and the suggested time and removes    *)
(* the request; a time correction replaces the suggested time only and the  *)
(* request stays; no, or any other reply, leaves the request as it is and   *)
(* stores nothing.  No step other than yes removes the pending request.     *)
C22_ConfirmCorrectFlow == []C22_Replies /\ [][C22_RemovedOnlyByYes]_vars

\* A request was corrected or left alone before, and a yes has just stored it.
C22_Witness ==
    /\ handled = 2
    /\ pending_reminders = EmptyMap
    /\ Len(rm_reminders) = 1
    /\ rm_reminders[1].reminder_text = <<"meet">>
    /\ Len(outbox) = 1 /\ outbox[1].what[1] = "scheduled"

(* C27: every reminder stored by a reply of yes has a due time strictly    *)
(* after the moment it is stored, however long the sender waited between   *)
(* the suggestion and the confirmation.                                    *)
C27_ConfirmedDueAfterNow ==
    \A sender \in DOMAIN pending_reminders : \A llm \in LLMOutcomes :
        \A msg \in {m \in MainMessages : m.mention /\ IsYes(m)} :
            LET res == HandleResult(sender, msg, llm)
            IN  Len(res.rm) = Len(rm_reminders) + 1 =>
                    res.rm[Len(res.rm)].time > now

----------------------------------------------------------------------------
(* test.py: the driver loop of main().  One conversation list serves every *)
(* chat; a message is a query, a chat name is a sequence of characters.    *)

MaxDriverMessages == 17   \* incoming messages that are not skipped

MaxDriverFailures == 2    \* messages whose handling raises

TestMaxRounds == 15       \* trim_conversation_history(conversation, max_rounds=15)

TestRoundThreshold == 5   \* build_context(..., round_threshold=5, ...)

TestRecentRounds == 2     \* build_context(..., recent_rounds=2)

TestSystemPrompt == <<"p1">>

\* test.py's clean_sender
TestCleanSender(sender) == Strip(ReSubFrom(Strip(sender), 1))

\* test.py's trim_conversation_history
TestTrimConversationHistory(messages, max_rounds) ==
    SelectSeq(messages, IsSystem)
      \o PySuffix(SelectSeq(messages, NotSystem), max_rounds * 2)

\* test.py's build_context; summarize_history returns "" when its call raises
TestBuildContext(messages, system_prompt, outcome, round_threshold, recent_rounds) ==
    LET non_system == SelectSeq(messages, NotSystem)
        summary ==
            IF Len(non_system) > round_threshold * 2
            THEN (IF outcome.raises THEN <<>> ELSE Strip(outcome.text))
            ELSE <<>>
        recent_messages ==
            IF Len(non_system) >= recent_rounds * 2
            THEN PySuffix(non_system, recent_rounds * 2)
            ELSE non_system
    IN  <<Msg("system", system_prompt)>>
          \o (IF summary # <<>> THEN <<Msg("system", SummaryPrefix \o summary)>> ELSE <<>>)
          \o recent_messages
          \o <<Msg("system", LengthConstraint)>>

\* what wx.GetAllNewMessage hands over, one message at a time
DriverChats == {<<"a">>, <<"g", "(", "3", ")">>}

DriverMessages ==
    {[actual_sender |-> "Self", mention |-> TRUE, query |-> <<"q">>],
     [actual_sender |-> "u1", mention |-> FALSE, query |-> <<"q">>],
     [actual_sender |-> "u1", mention |-> TRUE, query |-> <<"q">>]}

\* what the calls made for one message do: the summarizer's call, the chat
\* completion (raise, or a reply) and the two sends; the write of the log file,
\* which catches its own errors, is taken to succeed
DriverOutcomes ==
    [summary : {o \in SummarizerOutcomes : o.raises \/ o.text = <<"sum">>},
     create_raises : BOOLEAN, reply : {<<" ", "r">>},
     send_raises : BOOLEAN, sorry_raises : BOOLEAN]

Skipped(msg) == msg.actual_sender \in {"SYS", "Self"} \/ ~msg.mention

\* lines 146-170: the outcome of the loop body for a message that is not skipped
DriverResult(chat, msg, o) ==
    LET cleaned_chat == TestCleanSender(chat)
        asked == Append(conversation, Msg("user", msg.query))
        built == TestBuildContext(asked, TestSystemPrompt, o.summary,
                                  TestRoundThreshold, TestRecentRounds)
        reply == Strip(o.reply)
        trimmed == TestTrimConversationHistory(Append(asked, Msg("assistant", reply)),
                                               TestMaxRounds)
    IN  IF ~o.create_raises /\ ~o.send_raises
        THEN [conversation |-> trimmed, context |-> built,
              log |-> trimmed,
              outbox |-> <<Sent(cleaned_chat, <<"reply", reply>>)>>,
              raised |-> FALSE, alive |-> TRUE]
        ELSE [conversation |-> asked, context |-> built,
              log |-> conversation_log,
              outbox |-> IF o.sorry_raises THEN <<>>
                         ELSE <<Sent(cleaned_chat, <<"sorry">>)>>,
              raised |-> TRUE, alive |-> ~o.sorry_raises]

InitTest ==
    /\ conv = NewConversation(<<"p1">>, 0)
    /\ appended = <<>>
    /\ ctx_in = CtxIdle
    /\ ctx_pc = "idle"
    /\ ctx_out = <<>>
    /\ summarizer_calls = <<>>
    /\ MemoIdle
    /\ MainIdle
    /\ RaceIdle
    /\ FnIdle
    /\ conversation = <<Msg("system", TestSystemPrompt)>>
    /\ context = <<>>
    /\ conversation_log = <<>>
    /\ test_outbox = <<>>
    /\ test_alive = TRUE
    /\ test_handled = 0
    /\ test_failed = 0

driver_skip ==
    /\ test_alive
    /\ \E msg \in DriverMessages : Skipped(msg)
    /\ test_outbox' = <<>>
    /\ UNCHANGED <<conversation, context, conversation_log, test_alive, test_handled,
                   test_failed,
                   convVars, ctxVars, memoVars, mainVars, raceVars, fnVars>>

driver_message ==
    /\ test_alive
    /\ test_handled < MaxDriverMessages
    /\ \E chat \in DriverChats, o \in DriverOutcomes :
       \E msg \in {m \in DriverMessages : ~Skipped(m)} :
          LET res == DriverResult(chat, msg, o)
          IN  /\ res.raised => test_failed < MaxDriverFailures
              /\ conversation' = res.conversation
              /\ context' = res.context
              /\ conversation_log' = res.log
              /\ test_outbox' = res.outbox
              /\ test_alive' = res.alive
              /\ test_failed' = test_failed + (IF res.raised THEN 1 ELSE 0)
    /\ test_handled' = test_handled + 1
    /\ UNCHANGED <<convVars, ctxVars, memoVars, mainVars, raceVars, fnVars>>

NextTest == driver_skip \/ driver_message

SpecTest == InitTest /\ [][NextTest]_vars

TestNonSystem == SelectSeq(conversation, NotSystem)

(* C26: in the test.py driver loop the conversation list never holds more  *)
(* than max_rounds*2 + 1 = 31 non-system messages, whatever messages come  *)
(* in and whatever the calls of the language model do, failures included.  *)
C26_ConversationBounded == Len(TestNonSystem) <= TestMaxRounds * 2 + 1

\* What the trimming does give: right after a reply was sent the list holds at
\* most max_rounds*2 non-system messages.
C26_BoundedAfterReply ==
    (test_outbox # <<>> /\ test_outbox[1].what[1] = "reply")
        => Len(TestNonSystem) <= TestMaxRounds * 2

====
